---- MODULE Spec2Model ----
(***************************************************************************)
(* Model of pychessexporter: game_exporter.py (fetch, create_game_from_json *)
(* and the __main__ script) and data_models.py (Game.board_at_end and       *)
(* Game.to_console).                                                        *)
(*                                                                          *)
(* Python strings are sequences of one-character strings, so that          *)
(* str.split, str.capitalize and the substring test of line 29 are          *)
(* computed rather than assumed.  An optional value (None or a value, a     *)
(* dictionary key that may be missing) is a sequence of length 0 or 1.      *)
(***************************************************************************)
EXTENDS Integers, Sequences, FiniteSets, TLC

VARIABLES pc, argv, json_game, game, stdout, stderr, exit_code

vars == <<pc, argv, json_game, game, stdout, stderr, exit_code>>

\* ------------------------------------------------------------------ bounds
\* Largest number of plies of a fetched record, and largest number of clock
\* samples.
MaxPlies == 4

\* ----------------------------------------------------------- string values
None == <<>>
Some(v) == <<v>>

STR_ANALYSIS == <<"a", "n", "a", "l", "y", "s", "i", "s">>
STR_WHITE == <<"w", "h", "i", "t", "e">>
STR_BLACK == <<"b", "l", "a", "c", "k">>
STR_DRAW == <<"d", "r", "a", "w">>
STR_STALEMATE == <<"s", "t", "a", "l", "e", "m", "a", "t", "e">>
STR_MATE == <<"m", "a", "t", "e">>
STR_RESIGN == <<"r", "e", "s", "i", "g", "n">>
STR_OUTOFTIME == <<"o", "u", "t", "o", "f", "t", "i", "m", "e">>
STR_TIMEOUT == <<"t", "i", "m", "e", "o", "u", "t">>
STR_NA == <<"N", "/", "A">>
STR_GRAY == <<"g", "r", "a", "y">>
STR_BOB == <<"b", "o", "b">>
STR_ANALYSIS_FAN == <<"a", "n", "a", "l", "y", "s", "i", "s", "_", "f", "a", "n">>

\* The moves of one legal game, in order (the Ruy Lopez main line).
SanLine ==
    << <<"e", "4">>, <<"e", "5">>, <<"N", "f", "3">>, <<"N", "c", "6">>,
       <<"B", "b", "5">>, <<"a", "6">>, <<"B", "a", "4">>, <<"N", "f", "6">>,
       <<"O", "-", "O">>, <<"B", "e", "7">> >>

\* " ".join(tokens): how the service writes the "moves" field.
RECURSIVE JoinSpace(_)
JoinSpace(tokens) ==
    IF Len(tokens) = 0 THEN <<>>
    ELSE IF Len(tokens) = 1 THEN tokens[1]
    ELSE tokens[1] \o <<" ">> \o JoinSpace(Tail(tokens))

\* str.split(" "): cut at every single space; "" gives [""].
RECURSIVE SplitSpace(_)
SplitSpace(s) ==
    IF \A i \in 1..Len(s) : s[i] /= " " THEN <<s>>
    ELSE LET i == CHOOSE k \in 1..Len(s) :
                      s[k] = " " /\ \A m \in 1..(k - 1) : s[m] /= " "
         IN  <<SubSeq(s, 1, i - 1)>> \o SplitSpace(SubSeq(s, i + 1, Len(s)))

\* needle in hay, for Python strings.
Contains(needle, hay) ==
    \E i \in 0..(Len(hay) - Len(needle)) :
        SubSeq(hay, i + 1, i + Len(needle)) = needle

\* str.upper / str.lower on one character; only letters change.
UpperChar(c) ==
    CASE c = "a" -> "A" [] c = "b" -> "B" [] c = "d" -> "D" [] c = "g" -> "G"
      [] c = "m" -> "M" [] c = "n" -> "N" [] c = "o" -> "O" [] c = "r" -> "R"
      [] c = "s" -> "S" [] c = "t" -> "T" [] c = "w" -> "W"
      [] OTHER -> c

LowerChar(c) ==
    CASE c = "A" -> "a" [] c = "B" -> "b" [] c = "D" -> "d" [] c = "G" -> "g"
      [] c = "M" -> "m" [] c = "N" -> "n" [] c = "O" -> "o" [] c = "R" -> "r"
      [] c = "S" -> "s" [] c = "T" -> "t" [] c = "W" -> "w"
      [] OTHER -> c

\* str.capitalize(): first character upper-cased, the rest lower-cased.
Capitalize(s) ==
    [i \in 1..Len(s) |-> IF i = 1 THEN UpperChar(s[i]) ELSE LowerChar(s[i])]

\* Python list indexing: list[i] for a 0-based i; a negative i counts from
\* the end; anything else raises IndexError.
PyInRange(list, i) == (0 - Len(list)) <= i /\ i < Len(list)

PyGet(list, i) == list[(IF i < 0 THEN i + Len(list) ELSE i) + 1]


\* ------------------------------------------------------------ JSON as text
STR_PLAYERS == <<"p", "l", "a", "y", "e", "r", "s">>
STR_USER == <<"u", "s", "e", "r">>
STR_NAME == <<"n", "a", "m", "e">>
STR_MOVES == <<"m", "o", "v", "e", "s">>
STR_CLOCKS == <<"c", "l", "o", "c", "k", "s">>
STR_WINNER == <<"w", "i", "n", "n", "e", "r">>
STR_STATUS == <<"s", "t", "a", "t", "u", "s">>
STR_DIVISION == <<"d", "i", "v", "i", "s", "i", "o", "n">>
STR_MIDDLE == <<"m", "i", "d", "d", "l", "e">>
STR_END == <<"e", "n", "d">>
STR_EVAL == <<"e", "v", "a", "l">>
STR_ACPL == <<"a", "c", "p", "l">>

DigitChar(d) ==
    CASE d = 0 -> "0" [] d = 1 -> "1" [] d = 2 -> "2" [] d = 3 -> "3"
      [] d = 4 -> "4" [] d = 5 -> "5" [] d = 6 -> "6" [] d = 7 -> "7"
      [] d = 8 -> "8" [] d = 9 -> "9"

\* str(n) for an integer n.
RECURSIVE DecStr(_)
DecStr(n) ==
    IF n < 0 THEN <<"-">> \o DecStr(0 - n)
    ELSE IF n < 10 THEN <<DigitChar(n)>>
    ELSE DecStr(n \div 10) \o <<DigitChar(n % 10)>>

Quoted(s) == <<"\"">> \o s \o <<"\"">>

\* "key": value
Member(key, value) == Quoted(key) \o <<":", " ">> \o value

\* The members that are present, joined by ", " and put in braces.
RECURSIVE JoinComma(_)
JoinComma(items) ==
    IF Len(items) = 0 THEN <<>>
    ELSE IF Len(items) = 1 THEN items[1]
    ELSE items[1] \o <<",", " ">> \o JoinComma(Tail(items))

Object(members) == <<"{">> \o JoinComma(members) \o <<"}">>

Array(items) == <<"[">> \o JoinComma(items) \o <<"]">>

\* An optional member: no text at all when the key is missing.
OptMember(key, opt, text) ==
    IF opt = None THEN <<>> ELSE <<Member(key, text)>>

DumpPlayer(p) ==
    Object(<<Member(STR_USER, Object(<<Member(STR_NAME, Quoted(p.name))>>))>>
           \o OptMember(STR_ANALYSIS, p.analysis,
                        IF p.analysis = None THEN <<>>
                        ELSE Object(<<Member(STR_ACPL, DecStr(p.analysis[1].acpl))>>)))

DumpDivision(d) ==
    Object(OptMember(STR_MIDDLE, d.middle,
                     IF d.middle = None THEN <<>> ELSE DecStr(d.middle[1]))
           \o OptMember(STR_END, d.end,
                        IF d.end = None THEN <<>> ELSE DecStr(d.end[1])))

\* json.dumps(json_game): every key and every value of the record as text.
JsonDumps(j) ==
    Object(<<Member(STR_PLAYERS,
                    Object(<<Member(STR_WHITE, DumpPlayer(j.players.white)),
                             Member(STR_BLACK, DumpPlayer(j.players.black))>>)),
             Member(STR_MOVES, Quoted(j.moves)),
             Member(STR_CLOCKS, Array([i \in 1..Len(j.clocks) |-> DecStr(j.clocks[i])]))>>
           \o OptMember(STR_ANALYSIS, j.analysis,
                        IF j.analysis = None THEN <<>>
                        ELSE Array([i \in 1..Len(j.analysis[1]) |->
                                      Object(<<Member(STR_EVAL, DecStr(j.analysis[1][i].eval))>>)]))
           \o OptMember(STR_WINNER, j.winner,
                        IF j.winner = None THEN <<>> ELSE Quoted(j.winner[1]))
           \o OptMember(STR_STATUS, j.status,
                        IF j.status = None THEN <<>> ELSE Quoted(j.status[1]))
           \o OptMember(STR_DIVISION, j.division,
                        IF j.division = None THEN <<>> ELSE DumpDivision(j.division[1])))

\* "analysis" in json.dumps(json_game)
HasAnalysisText(j) == Contains(STR_ANALYSIS, JsonDumps(j))

\* ------------------------------------------------------ create_game_from_json
\* PlayerGameAnalysis() and the .get(..., -1) defaults of lines 36-43, 56-63.
ParsePlayerAnalysis(json_player, has_analysis) ==
    IF has_analysis /\ json_player.analysis /= None
    THEN [acpl |-> json_player.analysis[1].acpl]
    ELSE [acpl |-> -1]

ParsePlayer(color, json_player, has_analysis) ==
    [color |-> color, name |-> json_player.name,
     analysis |-> ParsePlayerAnalysis(json_player, has_analysis)]

\* ClockAt with a missing sample silently read as 0 instead of raising.
ClockAtDefaulting(moves_clocks, idx) ==
    IF PyInRange(moves_clocks, idx) THEN Some(PyGet(moves_clocks, idx)) ELSE Some(0)

\* moves_clocks[idx]: the sample, or nothing when Python raises IndexError.
ClockAt(moves_clocks, idx) ==
    IF PyInRange(moves_clocks, idx) THEN Some(PyGet(moves_clocks, idx)) ELSE None

\* Line 86, given both samples.
ThinkingTime(clock_now, clock_before) == clock_now - clock_before

\* MovePair with the two moves of the pair in the wrong slots.
MovePairSwapped(move_white, move) == <<move, Some(move_white)>>

\* The tuple appended at line 112.
MovePair(move_white, move) == <<move_white, Some(move)>>

Raise(kind) == [error |-> kind, moves |-> <<>>, move_white |-> None]

\* The loop of lines 85-113, from iteration idx on.
RECURSIVE MovesLoop(_, _, _, _, _, _, _, _)
MovesLoop(moves_sans, moves_clocks, moves_analyses, has_analysis, idx, moves, move_white, color) ==
    IF idx >= Len(moves_sans)
    THEN [error |-> "", moves |-> moves, move_white |-> move_white]
    ELSE
      LET now    == ClockAt(moves_clocks, idx)
          before == ClockAt(moves_clocks, idx - 2)
      IN
      IF idx >= 2 /\ (now = None \/ before = None) THEN Raise("IndexError")
      ELSE IF has_analysis /\ moves_analyses = None THEN Raise("TypeError")
      ELSE IF now = None THEN Raise("IndexError")
      ELSE
        LET thinking_time_cs ==
                IF idx >= 2 THEN ThinkingTime(now[1], before[1]) ELSE 0
            move_analysis ==
                IF has_analysis /\ idx < Len(moves_analyses[1])
                THEN Some(moves_analyses[1][idx + 1]) ELSE None
            move == [san |-> moves_sans[idx + 1],
                     clock_centosec |-> now[1],
                     thinking_time_centoseconds |-> thinking_time_cs,
                     analysis |-> move_analysis]
        IN
        IF color = "white"
        THEN MovesLoop(moves_sans, moves_clocks, moves_analyses, has_analysis,
                       idx + 1, moves, Some(move), "black")
        ELSE MovesLoop(moves_sans, moves_clocks, moves_analyses, has_analysis,
                       idx + 1, Append(moves, MovePair(move_white[1], move)),
                       None, "white")

\* Lines 145-153: the winner color, or None.
WinnerOf(winner_field) ==
    LET winner_str == IF winner_field = None THEN <<>> ELSE winner_field[1]
    IN  IF winner_str = STR_BLACK THEN Some(STR_BLACK)
        ELSE IF winner_str = STR_WHITE THEN Some(STR_WHITE)
        ELSE None

\* create_game_from_json: [error, game], game present iff it returned.
create_game_from_json(j) ==
    LET has_analysis == HasAnalysisText(j)
        loop == MovesLoop(SplitSpace(j.moves), j.clocks, j.analysis,
                          has_analysis, 0, <<>>, None, "white")
        moves == IF loop.move_white /= None
                 THEN Append(loop.moves, <<loop.move_white[1], None>>)
                 ELSE loop.moves
    IN  IF loop.error /= "" THEN [error |-> loop.error, game |-> None]
        ELSE IF j.division = None THEN [error |-> "KeyError", game |-> None]
        ELSE [error |-> "",
              game |-> Some([has_analysis |-> has_analysis,
                             players |-> <<ParsePlayer("white", j.players.white, has_analysis),
                                           ParsePlayer("black", j.players.black, has_analysis)>>,
                             moves |-> moves,
                             status |-> IF j.status = None THEN STR_NA ELSE j.status[1],
                             winner |-> WinnerOf(j.winner),
                             division |-> j.division[1]])]

\* ------------------------------------------------------------- data_models
STR_WAS_CHECKMATED == <<"w", "a", "s", " ", "c", "h", "e", "c", "k", "m", "a", "t", "e", "d">>
STR_RESIGNED == <<"r", "e", "s", "i", "g", "n", "e", "d">>
STR_RAN_OUT_OF_TIME == <<"r", "a", "n", " ", "o", "u", "t", " ", "o", "f", " ", "t", "i", "m", "e">>
STR_WINS == <<" ", "w", "i", "n", "s", ":", " ">>
STR_THE_GAME_ENDED_WITH_A == <<"T", "h", "e", " ", "g", "a", "m", "e", " ", "e", "n", "d", "e", "d", " ", "w", "i", "t", "h", " ", "a", " ">>
STR_MIDDLEGAME == <<"M", "i", "d", "d", "l", "e", "g", "a", "m", "e">>
STR_ENDGAME == <<"E", "n", "d", "g", "a", "m", "e">>

\* The score glyphs: "1", "0" and the one-half sign (U+00BD).
SCORE_HALF == "1/2"

\* The rules engine: a board is the stack of moves pushed so far, and
\* push_san accepts a move only if it is the legal continuation.
Legal(move_stack, san) ==
    Len(move_stack) < Len(SanLine) /\ san = SanLine[Len(move_stack) + 1]

\* The loop of board_at_end from pair k on: pushed is every move handed to
\* push_san so far, in order; the loop stops at the first one refused.
RECURSIVE PushPairs(_, _, _)
PushPairs(moves, k, pushed) ==
    IF k > Len(moves) THEN [error |-> "", move_stack |-> pushed, pushed |-> pushed]
    ELSE
      LET move_white == moves[k][1]
          move_black == moves[k][2]
          after_white == Append(pushed, move_white.san)
      IN
      IF ~Legal(pushed, move_white.san)
      THEN [error |-> "IllegalMoveError", move_stack |-> pushed, pushed |-> after_white]
      ELSE IF move_black = None THEN PushPairs(moves, k + 1, after_white)
      ELSE IF ~Legal(after_white, move_black[1].san)
      THEN [error |-> "IllegalMoveError", move_stack |-> after_white,
            pushed |-> Append(after_white, move_black[1].san)]
      ELSE PushPairs(moves, k + 1, Append(after_white, move_black[1].san))

board_at_end(g) == PushPairs(g.moves, 1, <<>>)

\* One row of the move table (lines 189-210): counter, white and black slot.
MoveRows(g) ==
    [k \in 1..Len(g.moves) |->
        [move_counter |-> k,
         san_white |-> g.moves[k][1].san,
         san_black |-> IF g.moves[k][2] = None THEN <<>> ELSE g.moves[k][2][1].san,
         clock_white |-> Some(g.moves[k][1].clock_centosec),
         clock_black |-> IF g.moves[k][2] = None THEN None
                         ELSE Some(g.moves[k][2][1].clock_centosec)]]

\* pretty_endings, lines 215-221.
pretty_endings ==
    (STR_DRAW :> STR_DRAW) @@ (STR_STALEMATE :> STR_STALEMATE)
    @@ (STR_MATE :> STR_WAS_CHECKMATED) @@ (STR_RESIGN :> STR_RESIGNED)
    @@ (STR_OUTOFTIME :> STR_RAN_OUT_OF_TIME)

\* Scores with the two sides' scores of a decided game exchanged.
ScoresSwapped(winner) ==
    IF winner = None THEN <<SCORE_HALF, SCORE_HALF>>
    ELSE IF winner[1] = STR_WHITE THEN <<"0", "1">>
    ELSE <<"1", "0">>

\* Lines 213-214 and 223-232: <<score_white, score_black>>.
Scores(winner) ==
    IF winner = None THEN <<SCORE_HALF, SCORE_HALF>>
    ELSE IF winner[1] = STR_WHITE THEN <<"1", "0">>
    ELSE <<"0", "1">>

\* Lines 223-235: the result line, or the KeyError of the lookup.
GameEnding(winner, status) ==
    IF winner /= None
    THEN IF status \in DOMAIN pretty_endings
         THEN [error |-> "",
               text |-> Capitalize(winner[1]) \o STR_WINS
                        \o (IF winner[1] = STR_WHITE THEN STR_BLACK ELSE STR_WHITE)
                        \o <<" ">> \o pretty_endings[status]]
         ELSE [error |-> "KeyError", text |-> <<>>]
    ELSE [error |-> "", text |-> STR_THE_GAME_ENDED_WITH_A \o Capitalize(status)]

\* Lines 273-276 and 277-280 for one boundary: the line, if any.
PhaseLine(phase, ply) ==
    IF ply /= None /\ ply[1] /= 0
    THEN <<[phase |-> phase,
            move_no |-> (ply[1] \div 2) + 1,
            white_or_black |-> IF ply[1] % 2 = 0 THEN STR_BLACK ELSE STR_WHITE]>>
    ELSE <<>>

NoReport(kind) == [error |-> kind, report |-> None]

\* Game.to_console: [error, report], in the order the method computes.
to_console(g) ==
    LET ending == GameEnding(g.winner, g.status)
        board  == board_at_end(g)
    IN  IF ending.error /= "" THEN NoReport(ending.error)
        ELSE IF board.error /= "" THEN NoReport(board.error)
        ELSE IF Len(board.move_stack) = 0 THEN NoReport("IndexError")
        ELSE [error |-> "",
              report |-> Some([scores |-> Scores(g.winner),
                               has_analysis |-> g.has_analysis,
                               moves_txt |-> MoveRows(g),
                               game_ending |-> ending.text,
                               phases |-> PhaseLine(STR_MIDDLEGAME, g.division.middle)
                                          \o PhaseLine(STR_ENDGAME, g.division.end),
                               final_position |-> board.move_stack,
                               last_move |-> board.move_stack[Len(board.move_stack)]])]

\* ------------------------------------------------------------------ inputs
ClockValues == {6000, 5500}

ClockLists == UNION {[1..n -> ClockValues] : n \in 0..MaxPlies}

\* A full-length clock list, for the records that vary something else.
SteadyClocks == [i \in 1..MaxPlies |-> IF i % 2 = 1 THEN 6000 ELSE 5500]

\* What the service sends as "moves": a game of 0..MaxPlies plies, or one
\* whose first move is not playable.
MoveTexts ==
    {JoinSpace(SubSeq(SanLine, 1, n)) : n \in 0..MaxPlies}
    \cup {JoinSpace(<<SanLine[2], SanLine[1]>>)}

PlayerAnalyses == {None, Some([acpl |-> 20])}

PlyAnalyses == {None, Some(<<[eval |-> 30], [eval |-> -15]>>)}

RawPlayers(name, pa) ==
    [white |-> [name |-> name, analysis |-> pa],
     black |-> [name |-> STR_BOB, analysis |-> pa]]

NoDivision == [middle |-> None, end |-> None]

\* Records that vary the moves, the clocks and where "analysis" occurs.
ParserInputs ==
    {[players |-> RawPlayers(name, pa), moves |-> m, clocks |-> c,
      analysis |-> an, winner |-> None, status |-> Some(STR_DRAW),
      division |-> Some(NoDivision)] :
        name \in {STR_BOB, STR_ANALYSIS_FAN}, pa \in PlayerAnalyses,
        m \in MoveTexts, c \in ClockLists, an \in PlyAnalyses}

Winners == {None, Some(STR_WHITE), Some(STR_BLACK), Some(STR_GRAY)}

Statuses ==
    {None, Some(STR_DRAW), Some(STR_STALEMATE), Some(STR_MATE),
     Some(STR_RESIGN), Some(STR_OUTOFTIME), Some(STR_TIMEOUT)}

Divisions ==
    {None} \cup {Some([middle |-> mid, end |-> en]) :
                    mid \in {None, Some(0), Some(1), Some(40)},
                    en \in {None, Some(41)}}

\* Records that vary the result and the phase boundaries.
RendererInputs ==
    {[players |-> RawPlayers(STR_BOB, None), moves |-> m, clocks |-> SteadyClocks,
      analysis |-> None, winner |-> w, status |-> st, division |-> d] :
        m \in MoveTexts, w \in Winners, st \in Statuses, d \in Divisions}

Records == ParserInputs \cup RendererInputs

\* ---------------------------------------------------------------- __main__
Line(kind) == [kind |-> kind, report |-> None]

Init ==
    /\ pc = "start"
    /\ argv \in {None, Some("game_id")}
    /\ json_game = None
    /\ game = None
    /\ stdout = <<>>
    /\ stderr = <<>>
    /\ exit_code = None

\* Lines 159-163, no argument: the usage line and sys.exit(0).
Usage ==
    /\ pc = "start" /\ argv = None
    /\ stdout' = Append(stdout, Line("usage"))
    /\ exit_code' = Some(0)
    /\ pc' = "exited"
    /\ UNCHANGED <<argv, json_game, game, stderr>>

\* Line 165 and get_game_object_from_lichess: the record, or None on a
\* ConnectionError.
Fetch ==
    /\ pc = "start" /\ argv /= None
    /\ \E r \in {None} \cup {Some(j) : j \in Records} : json_game' = r
    /\ pc' = "fetched"
    /\ UNCHANGED <<argv, game, stdout, stderr, exit_code>>

\* Lines 166-168.
FetchFailed ==
    /\ pc = "fetched" /\ json_game = None
    /\ stdout' = Append(stdout, Line("error"))
    /\ exit_code' = Some(-1)
    /\ pc' = "exited"
    /\ UNCHANGED <<argv, json_game, game, stderr>>

\* Line 170; an exception ends the run with a traceback on stderr.
Parse ==
    /\ pc = "fetched" /\ json_game /= None
    /\ LET result == create_game_from_json(json_game[1])
       IN  IF result.error = ""
           THEN /\ game' = result.game
                /\ pc' = "parsed"
                /\ UNCHANGED <<stderr, exit_code>>
           ELSE /\ stderr' = Append(stderr, result.error)
                /\ exit_code' = Some(1)
                /\ pc' = "exited"
                /\ UNCHANGED game
    /\ UNCHANGED <<argv, json_game, stdout>>

\* Line 171.
PrintBlank ==
    /\ pc = "parsed"
    /\ stdout' = Append(stdout, Line("blank"))
    /\ pc' = "blank_printed"
    /\ UNCHANGED <<argv, json_game, game, stderr, exit_code>>

\* Line 172; to_console runs before anything of the report is printed.
PrintReport ==
    /\ pc = "blank_printed"
    /\ LET result == to_console(game[1])
       IN  IF result.error = ""
           THEN /\ stdout' = Append(stdout, [kind |-> "report", report |-> result.report])
                /\ exit_code' = Some(0)
                /\ UNCHANGED stderr
           ELSE /\ stderr' = Append(stderr, result.error)
                /\ exit_code' = Some(1)
                /\ UNCHANGED stdout
    /\ pc' = "exited"
    /\ UNCHANGED <<argv, json_game, game>>

Next ==
    \/ Usage
    \/ Fetch
    \/ FetchFailed
    \/ Parse
    \/ PrintBlank
    \/ PrintReport

Spec == Init /\ [][Next]_vars

\* ------------------------------------------------------------- properties
\* The record of this run, once fetched, and whether line 170 has run.
ParseDone == json_game /= None /\ pc /= "fetched"

Returned == ParseDone /\ game /= None

Raised == ParseDone /\ game = None

\* The plies of the record: the moves the service joined with spaces.
PlyList(j) == IF Len(j.moves) = 0 THEN <<>> ELSE SplitSpace(j.moves)

\* The record has an analysis field: a player summary or the per-ply list.
HasAnalysisField(j) ==
    \/ j.analysis /= None
    \/ j.players.white.analysis /= None
    \/ j.players.black.analysis /= None

\* Nothing but the moves and clocks can make the parser raise.
PlainRecord(j) ==
    /\ j.division /= None
    /\ ~HasAnalysisField(j)
    /\ j.players.white.name = STR_BOB

\* The parsed moves in order: white then black of each pair.
RECURSIVE FlatMoves(_)
FlatMoves(moves) ==
    IF Len(moves) = 0 THEN <<>>
    ELSE <<moves[1][1]>>
         \o (IF moves[1][2] = None THEN <<>> ELSE <<moves[1][2][1]>>)
         \o FlatMoves(Tail(moves))

\* The report this run printed, if it printed one.
Printed == Len(stdout) > 0 /\ stdout[Len(stdout)].kind = "report"

PrintedReport == stdout[Len(stdout)].report[1]

\* C1: a record of N >= 0 plies with at least N clock samples is parsed into
\* ceil(N/2) pairs, every pair but the last has a black move, and the last
\* pair lacks its black move iff N is odd.
C1_PairsCeilOfPlies ==
    (ParseDone /\ PlainRecord(json_game[1])
       /\ Len(json_game[1].clocks) >= Len(PlyList(json_game[1])))
    => /\ game /= None
       /\ LET N == Len(PlyList(json_game[1]))
              moves == game[1].moves
          IN  /\ Len(moves) = (N + 1) \div 2
              /\ \A k \in 1..(Len(moves) - 1) : moves[k][2] /= None
              /\ Len(moves) > 0 => ((moves[Len(moves)][2] = None) <=> (N % 2 = 1))

\* C2: the thinking time of ply i is 0 for i < 2 and clock[i-2] - clock[i]
\* for i >= 2.
C2_ThinkingTimeIsElapsed ==
    Returned =>
        LET plies == FlatMoves(game[1].moves)
            clocks == json_game[1].clocks
        IN  \A i \in 0..(Len(plies) - 1) :
                plies[i + 1].thinking_time_centoseconds
                    = IF i < 2 THEN 0 ELSE clocks[i - 1] - clocks[i + 1]

STR_ENDED_UNEXPECTEDLY == <<"e", "n", "d", "e", "d", " ", "u", "n", "e", "x", "p", "e", "c", "t", "e", "d", "l", "y">>
STR_CAP_WHITE == <<"W", "h", "i", "t", "e">>
STR_CAP_BLACK == <<"B", "l", "a", "c", "k">>
STR_BLACK_WINS_WHITE_RESIGNED == <<"B", "l", "a", "c", "k", " ", "w", "i", "n", "s", ":", " ", "w", "h", "i", "t", "e", " ", "r", "e", "s", "i", "g", "n", "e", "d">>

\* The reason phrase the result line is said to carry for a status code.
ClaimedReason(status) ==
    CASE status = STR_DRAW -> STR_DRAW
      [] status = STR_STALEMATE -> STR_STALEMATE
      [] status = STR_MATE -> STR_WAS_CHECKMATED
      [] status = STR_RESIGN -> STR_RESIGNED
      [] status = STR_OUTOFTIME -> STR_RAN_OUT_OF_TIME
      [] OTHER -> STR_ENDED_UNEXPECTEDLY

ClaimedEnding(winner, status) ==
    IF winner = None THEN STR_THE_GAME_ENDED_WITH_A \o Capitalize(status)
    ELSE IF winner[1] = STR_WHITE
    THEN STR_CAP_WHITE \o STR_WINS \o STR_BLACK \o <<" ">> \o ClaimedReason(status)
    ELSE STR_CAP_BLACK \o STR_WINS \o STR_WHITE \o <<" ">> \o ClaimedReason(status)

\* C3: the result line is rendered without failing for every winner and
\* status code, unmapped codes giving "ended unexpectedly"; black winning by
\* resignation gives "Black wins: white resigned".
C3_ResultLineNeverFails ==
    Returned =>
        LET ending == GameEnding(game[1].winner, game[1].status)
        IN  /\ ending.error = ""
            /\ ending.text = ClaimedEnding(game[1].winner, game[1].status)
            /\ (game[1].winner = Some(STR_BLACK) /\ game[1].status = STR_RESIGN)
                  => ending.text = STR_BLACK_WINS_WHITE_RESIGNED

\* The run is over and did not print the report.
RunFailed == pc = "exited" /\ ~Printed

\* C4: a run that ends in a failure has written nothing of the report, not
\* even its leading blank line, and at most one explanatory line.
C4_NoPartialOutputOnFailure ==
    RunFailed =>
        /\ Len(stdout) <= 1
        /\ \A i \in 1..Len(stdout) : stdout[i].kind \notin {"blank", "report"}

\* C5: with fewer clock samples than plies the parser raises; a Game it
\* returns took every clock reading and thinking time from inside the list.
C5_ShortClocksFailClosed ==
    ParseDone =>
        LET clocks == json_game[1].clocks
        IN  /\ Len(clocks) < Len(PlyList(json_game[1]))
                => game = None /\ Len(stderr) = 1 /\ exit_code = Some(1)
            /\ game /= None =>
                 LET plies == FlatMoves(game[1].moves)
                 IN  \A i \in 0..(Len(plies) - 1) :
                        /\ i < Len(clocks)
                        /\ plies[i + 1].clock_centosec = clocks[i + 1]
                        /\ i >= 2 => \E d \in {1, -1} :
                               plies[i + 1].thinking_time_centoseconds
                                   = d * (clocks[i + 1] - clocks[i - 1])

\* C5 witness: three plies, two samples; the parser raised IndexError.
C5_Witness ==
    /\ Raised
    /\ Len(PlyList(json_game[1])) = 3
    /\ Len(json_game[1].clocks) = 2
    /\ PlainRecord(json_game[1])
    /\ stderr = <<"IndexError">>

\* C6: has_analysis is true iff the record has an analysis field, and a
\* record without one is parsed without raising, whatever its texts hold.
C6_HasAnalysisIffField ==
    (ParseDone /\ json_game[1].division /= None
       /\ Len(json_game[1].clocks) >= Len(SplitSpace(json_game[1].moves)))
    => /\ game /= None => (game[1].has_analysis <=> HasAnalysisField(json_game[1]))
       /\ ~HasAnalysisField(json_game[1]) => game /= None

\* The line the report is said to have for a boundary at ply p.
ClaimedPhaseLine(phase, ply) ==
    IF ply = None THEN <<>>
    ELSE <<[phase |-> phase,
            move_no |-> (ply[1] \div 2) + 1,
            white_or_black |-> IF ply[1] % 2 = 0 THEN STR_WHITE ELSE STR_BLACK]>>

\* C7: a boundary present at ply p is reported at move p \div 2 + 1, white
\* for an even p and black for an odd p; an absent boundary has no line.
C7_PhaseBoundarySide ==
    Printed =>
        PrintedReport.phases
            = ClaimedPhaseLine(STR_MIDDLEGAME, game[1].division.middle)
              \o ClaimedPhaseLine(STR_ENDGAME, game[1].division.end)

\* C8: a record with no moves is parsed and rendered: nothing is pushed to
\* the rules engine, the move table is empty and the report is printed.
C8_ZeroMovesRenders ==
    (pc = "exited" /\ json_game /= None /\ PlainRecord(json_game[1])
       /\ json_game[1].winner = None /\ Len(json_game[1].moves) = 0)
    => /\ Printed
       /\ PrintedReport.final_position = <<>>
       /\ PrintedReport.moves_txt = <<>>

\* The scores claimed for a raw winner field.
ClaimedScores(winner_field) ==
    IF winner_field = Some(STR_WHITE) THEN <<"1", "0">>
    ELSE IF winner_field = Some(STR_BLACK) THEN <<"0", "1">>
    ELSE <<SCORE_HALF, SCORE_HALF>>

\* C9: the scores depend only on the winner (1-0, 0-1, or a half each when
\* there is none, whatever the status), and the winner is a color only for
\* the exact texts "white" and "black".
C9_ScoresFollowWinner ==
    /\ Returned =>
         LET w == json_game[1].winner
         IN  /\ game[1].winner = (IF w \in {Some(STR_WHITE), Some(STR_BLACK)} THEN w ELSE None)
             /\ Scores(game[1].winner) = ClaimedScores(w)
    /\ Printed => PrintedReport.scores = ClaimedScores(json_game[1].winner)

\* C9 witness: a printed report of a game black won, and scored 0-1.
C9_Witness ==
    /\ Printed
    /\ json_game[1].winner = Some(STR_BLACK)
    /\ PrintedReport.scores = <<"0", "1">>

\* C10: the parsed pairs, flattened, are the raw plies in their order; ply i
\* is in pair i \div 2, white iff i is even, with clock reading clock[i]; and
\* board_at_end hands the moves to the rules engine in that order.
C10_PlyOrderPreserved ==
    (Returned /\ Len(PlyList(json_game[1])) >= 1)
    => LET raw == PlyList(json_game[1])
           moves == game[1].moves
           plies == FlatMoves(moves)
           board == board_at_end(game[1])
       IN  /\ [i \in 1..Len(plies) |-> plies[i].san] = raw
           /\ \A i \in 0..(Len(raw) - 1) :
                 /\ (i \div 2) + 1 <= Len(moves)
                 /\ IF i % 2 = 0
                    THEN moves[(i \div 2) + 1][1].san = raw[i + 1]
                         /\ moves[(i \div 2) + 1][1].clock_centosec
                              = json_game[1].clocks[i + 1]
                    ELSE moves[(i \div 2) + 1][2] /= None
                         /\ moves[(i \div 2) + 1][2][1].san = raw[i + 1]
                         /\ moves[(i \div 2) + 1][2][1].clock_centosec
                              = json_game[1].clocks[i + 1]
           /\ board.pushed = SubSeq(raw, 1, Len(board.pushed))
           /\ board.error = "" => board.pushed = raw
           /\ Printed => PrintedReport.final_position = raw

\* C10 witness: a printed report of a game of three plies, the last pair
\* without a black move.
C10_Witness ==
    /\ Printed
    /\ Len(PlyList(json_game[1])) = 3
    /\ Len(game[1].moves) = 2
    /\ game[1].moves[2][2] = None
    /\ PrintedReport.final_position = SubSeq(SanLine, 1, 3)

====
